---- MODULE Spec2Model ----
(***************************************************************************)
(* Athlete registration service (fabio290682/judo).                        *)
(*                                                                         *)
(* server.ts keeps one SQLite table, athletes, and serves three routes:    *)
(* POST /api/register, GET /api/athletes and DELETE /api/athletes/:id.     *)
(* better-sqlite3 is synchronous, so each route handler runs to completion *)
(* inside one turn of the Node event loop: a handler is one atomic action. *)
(* Several requests are in flight at the same time and are handled in any  *)
(* order.                                                                  *)
(*                                                                         *)
(* Of the 29 payload columns the model keeps nome_completo and cpf (TEXT   *)
(* NOT NULL, cpf UNIQUE), peso (REAL; altura behaves the same), escola     *)
(* (TEXT; the other 23 TEXT columns behave the same) and termo_aceite      *)
(* (INTEGER).  A JavaScript value is [t |-> typeof, v |-> text], a SQLite  *)
(* value is [t |-> storage class, v |-> text].                             *)
(*                                                                         *)
(* The second part models the App component of the browser client: its     *)
(* React state, the buttons it renders and the three fetch calls, each     *)
(* call a request that is sent, answered by the server and delivered to    *)
(* the continuation after the await.  A handler of the component runs to   *)
(* its first await in one step.                                            *)
(***************************************************************************)
EXTENDS Integers, Sequences, FiniteSets, Bags, TLC

VARIABLES athletes,   \* rows of table athletes (server.ts:14-50)
          seq,        \* sqlite_sequence entry of athletes (AUTOINCREMENT)
          now,        \* wall clock of the server, in whole seconds
          pending,    \* bag of the requests in flight
          reply,      \* the response the server sent last and the App has not read, or None
          submitted,  \* history: id |-> payload of every successful register
          live,       \* history: ids registered and not yet asked to delete
          view,       \* App: 'form', 'admin' or 'success'
          step,       \* App: step of the form
          formData,   \* App: the draft
          listed,     \* App: athletes, the list the admin view displays
          loading,    \* App: loading
          calls,      \* App: bag of the fetch calls not yet settled
          alerted,    \* App: text of the last alert(), <<>> when none was shown
          reading     \* App: a FileReader has not yet fired onloadend

appVars == <<view, step, formData, listed, loading, calls, alerted, reading>>

vars == <<athletes, seq, now, pending, reply, submitted, live,
          view, step, formData, listed, loading, calls, alerted, reading>>

\* ---- bounds ----
MaxId      == 2    \* registrations that may succeed in one behaviour
MaxClock   == 1    \* seconds the clock may advance
MaxInFlight == 2   \* requests in flight at the same time

\* ---- JavaScript and SQLite values ----
Str(s)    == [t |-> "string", v |-> s]
Bool(b)   == [t |-> "boolean", v |-> IF b THEN "true" ELSE "false"]
Num(s)    == [t |-> "number", v |-> s]
JsNull    == [t |-> "null", v |-> ""]
Undefined == [t |-> "undefined", v |-> ""]

SqlText(s) == [t |-> "text", v |-> s]
SqlReal(s) == [t |-> "real", v |-> s]
SqlInt(s)  == [t |-> "integer", v |-> s]
SqlNull    == [t |-> "null", v |-> ""]

None == [op |-> "none"]

\* texts that SQLite recognises as numeric literals, among those the model uses
NumericTexts == {"70", "1.75"}

\* the 28 parameters bound as they come from the request body
BoundFields == {"nome_completo", "cpf", "peso", "escola"}

\* INITIAL_DATA of the client form, restricted to the modelled columns
INITIAL_DATA ==
  [nome_completo |-> Str(""), cpf |-> Str(""), peso |-> Str(""),
   escola |-> Str(""), foto_url |-> Str(""), termo_aceite |-> Bool(FALSE)]

\* request bodies the model submits
Payloads ==
  { [nome_completo |-> Str("Ana"), cpf |-> Str("111"), peso |-> Str("70"),
     escola |-> Str("E1"), termo_aceite |-> Bool(TRUE)],
    [nome_completo |-> Str("Ana B"), cpf |-> Str("111"), peso |-> Str(""),
     escola |-> Str("E1"), termo_aceite |-> Bool(FALSE)],
    [INITIAL_DATA EXCEPT !.termo_aceite = Bool(TRUE)],
    [nome_completo |-> JsNull, cpf |-> Str("222"), peso |-> Str(""),
     escola |-> Str("E1"), termo_aceite |-> Bool(TRUE)],
    [nome_completo |-> Str("Caio"), cpf |-> Undefined, peso |-> Str(""),
     escola |-> Str("E1"), termo_aceite |-> Bool(TRUE)],
    [nome_completo |-> Str("Caio"), cpf |-> Str("222"), peso |-> Str(""),
     escola |-> Undefined, termo_aceite |-> Bool(TRUE)] }

\* decimal text of the ids the model can reach
Digits == <<"1", "2", "3", "4", "5", "6", "7", "8", "9">>

\* :id path parameters the model submits: every id in reach and a text that
\* is no number
DeleteParams == {Digits[i] : i \in 1..MaxId} \cup {"abc"}

\* ---- parameter binding and column affinity (better-sqlite3, SQLite) ----

\* better-sqlite3 binds numbers, strings and null; undefined and booleans
\* make stmt.run throw a TypeError before the statement executes
Bindable(x) == x.t \in {"string", "number", "null"}

\* a value stored in a TEXT column
TextAffinity(x) == IF x.t = "null" THEN SqlNull ELSE SqlText(x.v)

\* a value stored in a REAL column: numeric text is converted, other text kept
RealAffinity(x) ==
  IF x.t = "null" THEN SqlNull
  ELSE IF x.t = "number" \/ x.v \in NumericTexts THEN SqlReal(x.v)
  ELSE SqlText(x.v)

\* JavaScript truthiness, for data.termo_aceite ? 1 : 0
Truthy(x) ==
  CASE x.t = "boolean" -> x.v = "true"
    [] x.t = "string"  -> x.v # ""
    [] x.t = "number"  -> x.v # "0"
    [] OTHER           -> FALSE

ConsentParam(x) == IF Truthy(x) THEN SqlInt("1") ELSE SqlInt("0")

\* a column value as res.json sends it
ToJson(x) ==
  CASE x.t = "text" -> Str(x.v)
    [] x.t \in {"real", "integer"} -> Num(x.v)
    [] OTHER -> JsNull

\* ---- the INSERT of POST /api/register ----

BindError(data) == \E f \in BoundFields : ~Bindable(data[f])

NotNullViolation(data) ==
  TextAffinity(data.nome_completo) = SqlNull \/ TextAffinity(data.cpf) = SqlNull

\* variant: the cpf column carries no UNIQUE constraint
UniqueViolationOff(tbl, cpf) == FALSE

\* variant: the check reads a snapshot that misses the rows written this second
UniqueViolationStale(tbl, cpf) == \E r \in tbl : r.cpf = cpf /\ r.created_at < now

UniqueViolation(tbl, cpf) == \E r \in tbl : r.cpf = cpf

\* variant: INTEGER PRIMARY KEY without AUTOINCREMENT, one more than the
\* largest rowid now in the table
NextRowidMax(tbl, s) ==
  IF tbl = {} THEN 1
  ELSE (CHOOSE m \in {r.id : r \in tbl} : \A r \in tbl : r.id <= m) + 1

\* variant: the first rowid is 0
NextRowidFromZero(tbl, s) == IF tbl = {} /\ s = 0 THEN 0 ELSE s + 1

\* AUTOINCREMENT: one more than the largest rowid the table ever held, which
\* sqlite_sequence records; rows deleted since do not lower it
NextRowid(tbl, s) == s + 1

\* the row the INSERT adds; created_at takes DEFAULT CURRENT_TIMESTAMP
NewRow(tbl, data, s, clock) ==
  [id            |-> NextRowid(tbl, s),
   nome_completo |-> TextAffinity(data.nome_completo),
   cpf           |-> TextAffinity(data.cpf),
   peso          |-> RealAffinity(data.peso),
   escola        |-> TextAffinity(data.escola),
   termo_aceite  |-> ConsentParam(data.termo_aceite),
   created_at    |-> clock]

\* variant: a conflicting cpf is not reported
InsertErrorNoUnique(tbl, data) ==
  IF BindError(data)
    THEN "SQLite3 can only bind numbers, strings, bigints, buffers, and null"
  ELSE IF NotNullViolation(data)
    THEN "NOT NULL constraint failed"
  ELSE ""

\* the message of the exception stmt.run throws, or "" when it succeeds
InsertError(tbl, data) ==
  IF BindError(data)
    THEN "SQLite3 can only bind numbers, strings, bigints, buffers, and null"
  ELSE IF TextAffinity(data.nome_completo) = SqlNull
    THEN "NOT NULL constraint failed: athletes.nome_completo"
  ELSE IF TextAffinity(data.cpf) = SqlNull
    THEN "NOT NULL constraint failed: athletes.cpf"
  ELSE IF UniqueViolation(tbl, TextAffinity(data.cpf))
    THEN "UNIQUE constraint failed: athletes.cpf"
  ELSE ""

\* ---- SELECT * FROM athletes ORDER BY created_at DESC ----

\* variant: the SELECT returns only the rows with termo_aceite = 1
OrderingsConsented(tbl) ==
  LET kept == {r \in tbl : r.termo_aceite = SqlInt("1")}
  IN {f \in [1..Cardinality(kept) -> kept] :
        /\ \A i, j \in 1..Cardinality(kept) : i # j => f[i] # f[j]
        /\ \A i, j \in 1..Cardinality(kept) : i < j => f[i].created_at >= f[j].created_at}

\* the orders the SELECT may return: created_at descending; the order of rows
\* with equal created_at is not determined by the statement
Orderings(tbl) ==
  {f \in [1..Cardinality(tbl) -> tbl] :
     /\ \A i, j \in 1..Cardinality(tbl) : i # j => f[i] # f[j]
     /\ \A i, j \in 1..Cardinality(tbl) : i < j => f[i].created_at >= f[j].created_at}

\* variant: the row is stamped when it is read, not when it is inserted
RowToJsonNow(r) ==
  [id            |-> r.id,
   nome_completo |-> ToJson(r.nome_completo),
   cpf           |-> ToJson(r.cpf),
   peso          |-> ToJson(r.peso),
   escola        |-> ToJson(r.escola),
   termo_aceite  |-> ToJson(r.termo_aceite),
   created_at    |-> now]

RowToJson(r) ==
  [id            |-> r.id,
   nome_completo |-> ToJson(r.nome_completo),
   cpf           |-> ToJson(r.cpf),
   peso          |-> ToJson(r.peso),
   escola        |-> ToJson(r.escola),
   termo_aceite  |-> ToJson(r.termo_aceite),
   created_at    |-> r.created_at]

\* ---- DELETE FROM athletes WHERE id = ? ----

\* variant: any numeric parameter matches every row
MatchesIdAny(id, param) == \E i \in DOMAIN Digits : Digits[i] = param

\* the parameter is the text of the path; the INTEGER column compares equal to
\* it when the text is the decimal form of the id
MatchesId(id, param) == \E i \in DOMAIN Digits : Digits[i] = param /\ id = i

\* variant: the DELETE has no WHERE clause
DeleteRowsAll(tbl, param) == {}

DeleteRows(tbl, param) == {r \in tbl : ~MatchesId(r.id, param)}

\* ---- state machine ----

Init ==
  /\ athletes = {}
  /\ seq = 0
  /\ now = 0
  /\ pending = EmptyBag
  /\ reply = None
  /\ submitted = <<>>
  /\ live = {}
  /\ view = "form"
  /\ step = 1
  /\ formData = INITIAL_DATA
  /\ listed = <<>>
  /\ loading = FALSE
  /\ calls = EmptyBag
  /\ alerted = <<>>
  /\ reading = FALSE

\* requests in flight, each once
InFlight == BagToSet(pending)

\* a second of wall-clock time passes
Tick ==
  /\ now < MaxClock
  /\ now' = now + 1
  /\ UNCHANGED <<athletes, seq, pending, reply, submitted, live>>

\* number of register requests in flight
PendingRegisters ==
  BagCardinality([r \in {q \in InFlight : q.op = "register"} |-> pending[r]])

\* a client sends a request
Send(request) ==
  /\ BagCardinality(pending) < MaxInFlight
  /\ pending' = pending (+) SetToBag({request})
  /\ UNCHANGED <<athletes, seq, now, reply, submitted, live>>

\* the request leaves the network when its handler has answered it
Answered(request) == pending' = pending (-) SetToBag({request})

\* raced records that, when this request was sent, no row held its cpf and
\* another register request carrying the same cpf was in flight; the model
\* stops sending when MaxId registers have succeeded or are in flight
SendRegister ==
  /\ seq + PendingRegisters < MaxId
  /\ \E data \in Payloads :
       Send([op |-> "register", data |-> data,
             raced |-> /\ \A r \in athletes : r.cpf # TextAffinity(data.cpf)
                       /\ \E q \in InFlight :
                            q.op = "register" /\ q.data.cpf = data.cpf])

SendList == Send([op |-> "list"])

SendDelete == \E param \in DeleteParams : Send([op |-> "delete", id |-> param])

\* the status of res.json when no status is set
OkStatus == 200

\* variant: the catch block answers without res.status(500)
ErrorStatusDefault == OkStatus

\* res.status(500) of the catch blocks
ErrorStatus == 500

\* app.post("/api/register"); keys are the members of the JSON body, id and
\* error hold 0 and "" when the body has no such member
Register(request) ==
  /\ request.op = "register"
  /\ LET data == request.data
         err  == InsertError(athletes, data)
         row  == NewRow(athletes, data, seq, now)
     IN IF err = ""
          THEN /\ athletes' = athletes \cup {row}
               /\ seq' = row.id
               /\ reply' = [op |-> "register", data |-> data, raced |-> request.raced,
                            status |-> OkStatus, success |-> TRUE, id |-> row.id,
                            error |-> "", keys |-> {"success", "id"}]
               /\ submitted' = (row.id :> data) @@ submitted
               /\ live' = live \cup {row.id}
          ELSE /\ reply' = [op |-> "register", data |-> data, raced |-> request.raced,
                            status |-> ErrorStatus, success |-> FALSE, id |-> 0,
                            error |-> err, keys |-> {"success", "error"}]
               /\ UNCHANGED <<athletes, seq, submitted, live>>
  /\ Answered(request)
  /\ UNCHANGED now

\* app.get("/api/athletes")
ListAthletes(request) ==
  /\ request.op = "list"
  /\ \E f \in Orderings(athletes) :
       reply' = [op |-> "list", status |-> OkStatus,
                 rows |-> [i \in DOMAIN f |-> RowToJson(f[i])]]
  /\ Answered(request)
  /\ UNCHANGED <<athletes, seq, now, submitted, live>>

\* app.delete("/api/athletes/:id"); changes is the count of deleted rows that
\* run() returns and the handler does not read
DeleteAthlete(request) ==
  /\ request.op = "delete"
  /\ athletes' = DeleteRows(athletes, request.id)
  /\ reply' = [op |-> "delete", id |-> request.id, status |-> OkStatus,
               success |-> TRUE,
               changes |-> Cardinality(athletes) - Cardinality(athletes')]
  /\ live' = {i \in live : ~MatchesId(i, request.id)}
  /\ Answered(request)
  /\ UNCHANGED <<seq, now, submitted>>

\* the service under requests of any client; the App is not running
Next ==
  \/ Tick /\ UNCHANGED appVars
  \/ SendRegister /\ UNCHANGED appVars
  \/ SendList /\ UNCHANGED appVars
  \/ SendDelete /\ UNCHANGED appVars
  \/ \E request \in InFlight : Register(request) /\ UNCHANGED appVars
  \/ \E request \in InFlight : ListAthletes(request) /\ UNCHANGED appVars
  \/ \E request \in InFlight : DeleteAthlete(request) /\ UNCHANGED appVars

Spec == Init /\ [][Next]_vars

TypeOK ==
  /\ seq \in 0..MaxId
  /\ now \in 0..MaxClock
  /\ \A r \in athletes : r.id \in 1..seq /\ r.created_at \in 0..now

\* the same service when no client ever asks for a delete
NextRace ==
  \/ Tick /\ UNCHANGED appVars
  \/ SendRegister /\ UNCHANGED appVars
  \/ SendList /\ UNCHANGED appVars
  \/ \E request \in InFlight : Register(request) /\ UNCHANGED appVars
  \/ \E request \in InFlight : ListAthletes(request) /\ UNCHANGED appVars

SpecRace == Init /\ [][NextRace]_vars

\* ---- the App component (part_000) ----

\* values the user types into the fields the model edits, and the step of
\* the form that renders each field
FieldValues ==
  [nome_completo |-> {Str(""), Str("Ana")},
   cpf           |-> {Str(""), Str("111")},
   termo_aceite  |-> {Bool(TRUE), Bool(FALSE)}]

FieldStep == [nome_completo |-> 1, cpf |-> 1, termo_aceite |-> 5]

\* the data URI a FileReader produces
PhotoDataUrl == Str("data:image/jpeg;base64")

\* fetch calls of the App that are not settled, each once
Calls == BagToSet(calls)

\* a call as it is sent, and as it is once the server has answered it
NewCall(request) == [request |-> request, stage |-> "sent", response |-> None]

AnsweredCall(request, response) ==
  [request |-> request, stage |-> "answered", response |-> response]

\* fetch(...): the request leaves the browser
Fetch(request) ==
  /\ BagCardinality(calls) < MaxInFlight
  /\ Send(request)
  /\ calls' = calls (+) SetToBag({NewCall(request)})

\* a call settles: its continuation runs and the call is gone
Settled(call) == calls' = calls (-) SetToBag({call})

\* the fields the user edits: all of them when the form is used alone, the
\* consent checkbox when the admin view is used as well
FormFields == DOMAIN FieldValues

ConsentField == {"termo_aceite"}

\* handleInputChange: the field of the step on display takes the typed value
handleInputChange(names) ==
  /\ view = "form"
  /\ \E name \in names :
       /\ step = FieldStep[name]
       /\ \E val \in FieldValues[name] :
            /\ val # formData[name]
            /\ formData' = [formData EXCEPT ![name] = val]
  /\ UNCHANGED <<athletes, seq, now, pending, reply, submitted, live,
                 view, step, listed, loading, calls, alerted, reading>>

\* handlePhotoUpload: reader.readAsDataURL(file) starts
handlePhotoUpload ==
  /\ view = "form"
  /\ step = 1
  /\ ~reading
  /\ reading' = TRUE
  /\ UNCHANGED <<athletes, seq, now, pending, reply, submitted, live,
                 view, step, formData, listed, loading, calls, alerted>>

\* reader.onloadend: the photo enters the draft
onloadend ==
  /\ reading
  /\ reading' = FALSE
  /\ formData' = [formData EXCEPT !.foto_url = PhotoDataUrl]
  /\ UNCHANGED <<athletes, seq, now, pending, reply, submitted, live,
                 view, step, listed, loading, calls, alerted>>

\* VOLTAR, rendered when step > 1
Voltar ==
  /\ view = "form"
  /\ step > 1
  /\ step' = step - 1
  /\ UNCHANGED <<athletes, seq, now, pending, reply, submitted, live,
                 view, formData, listed, loading, calls, alerted, reading>>

\* variant: the button is disabled while loading only
SubmitDisabledLoadingOnly == loading

\* disabled of the PROXIMA ETAPA / FINALIZAR INSCRICAO button
SubmitDisabled == loading \/ (step = 5 /\ formData.termo_aceite # Bool(TRUE))

\* the step at which the button submits instead of advancing
LastStep == 5

\* variant: the button advances at step 5 too
ProximaEtapaAlways ==
  /\ view = "form"
  /\ ~SubmitDisabled
  /\ step' = step + 1
  /\ UNCHANGED <<athletes, seq, now, pending, reply, submitted, live,
                 view, formData, listed, loading, calls, alerted, reading>>

\* PROXIMA ETAPA: setStep(s => s + 1)
ProximaEtapa ==
  /\ view = "form"
  /\ ~SubmitDisabled
  /\ step < LastStep
  /\ step' = step + 1
  /\ UNCHANGED <<athletes, seq, now, pending, reply, submitted, live,
                 view, formData, listed, loading, calls, alerted, reading>>

\* the register request of the draft, raced as in SendRegister
RegisterRequest(data) ==
  [op |-> "register", data |-> data,
   raced |-> /\ \A r \in athletes : r.cpf # TextAffinity(data.cpf)
             /\ \E q \in InFlight : q.op = "register" /\ q.data.cpf = data.cpf]

\* FINALIZAR INSCRICAO: handleSubmit up to its await; the model stops
\* submitting when MaxId registers have succeeded or are in flight
handleSubmit ==
  /\ view = "form"
  /\ ~SubmitDisabled
  /\ step >= LastStep
  /\ seq + PendingRegisters < MaxId
  /\ loading' = TRUE
  /\ Fetch(RegisterRequest(formData))
  /\ UNCHANGED <<view, step, formData, listed, alerted, reading>>

\* fetchAthletes up to its await
fetchAthletes ==
  /\ loading' = TRUE
  /\ Fetch([op |-> "list"])

\* the header button, not rendered in the success view; useEffect fetches
\* the list when the view becomes 'admin'
ToggleView ==
  /\ view # "success"
  /\ IF view = "admin"
       THEN /\ view' = "form"
            /\ UNCHANGED <<athletes, seq, now, pending, reply, submitted, live,
                           loading, calls>>
       ELSE /\ view' = "admin"
            /\ fetchAthletes
  /\ UNCHANGED <<step, formData, listed, alerted, reading>>

\* the refresh button of the admin view
Refresh ==
  /\ view = "admin"
  /\ fetchAthletes
  /\ UNCHANGED <<view, step, formData, listed, alerted, reading>>

\* the delete button of a displayed row, confirmed: deleteAthlete up to its
\* await; the rows are not rendered while loading
deleteAthlete ==
  /\ view = "admin"
  /\ ~loading
  /\ \E k \in DOMAIN listed :
       Fetch([op |-> "delete", id |-> Digits[listed[k].id]])
  /\ UNCHANGED <<view, step, formData, listed, loading, alerted, reading>>

\* variant: the button returns to the form and leaves the draft as it is
NovaInscricaoKeepsDraft ==
  /\ view = "success"
  /\ view' = "form"
  /\ UNCHANGED <<athletes, seq, now, pending, reply, submitted, live, step,
                 formData, listed, loading, calls, alerted, reading>>

\* NOVA INSCRICAO, the only button of the success view
NovaInscricao ==
  /\ view = "success"
  /\ view' = "form"
  /\ step' = 1
  /\ formData' = INITIAL_DATA
  /\ UNCHANGED <<athletes, seq, now, pending, reply, submitted, live,
                 listed, loading, calls, alerted, reading>>

\* the server answers a request of the App
Serve ==
  \E call \in Calls :
    /\ call.stage = "sent"
    /\ \/ Register(call.request)
       \/ ListAthletes(call.request)
       \/ DeleteAthlete(call.request)
    /\ calls' = (calls (-) SetToBag({call}))
                  (+) SetToBag({AnsweredCall(call.request, reply')})
    /\ UNCHANGED <<view, step, formData, listed, loading, alerted, reading>>

\* handleSubmit after its await: the response of the register call
SubmitDone(call) ==
  /\ call.stage = "answered"
  /\ call.request.op = "register"
  /\ Settled(call)
  /\ IF call.response.success
       THEN view' = "success" /\ UNCHANGED alerted
       ELSE alerted' = <<"Erro ao cadastrar: ", call.response.error>>
            /\ UNCHANGED view
  /\ loading' = FALSE
  /\ reply' = None
  /\ UNCHANGED <<athletes, seq, now, pending, submitted, live,
                 step, formData, listed, reading>>

\* fetchAthletes after its await: setAthletes(data)
FetchDone(call) ==
  /\ call.stage = "answered"
  /\ call.request.op = "list"
  /\ Settled(call)
  /\ listed' = call.response.rows
  /\ loading' = FALSE
  /\ reply' = None
  /\ UNCHANGED <<athletes, seq, now, pending, submitted, live,
                 view, step, formData, alerted, reading>>

\* deleteAthlete after its await: fetchAthletes()
DeleteDone(call) ==
  /\ call.stage = "answered"
  /\ call.request.op = "delete"
  /\ loading' = TRUE
  /\ pending' = pending (+) SetToBag({[op |-> "list"]})
  /\ calls' = (calls (-) SetToBag({call})) (+) SetToBag({NewCall([op |-> "list"])})
  /\ reply' = None
  /\ UNCHANGED <<athletes, seq, now, submitted, live,
                 view, step, formData, listed, alerted, reading>>

\* the fetch of a call rejects: the request never reaches the server, or its
\* answer is lost; the catch and finally blocks of the caller run
Rejected(call) ==
  /\ Settled(call)
  /\ IF call.stage = "sent"
       THEN pending' = pending (-) SetToBag({call.request})
       ELSE UNCHANGED pending
  /\ alerted' = IF call.request.op = "register" THEN <<"Erro de conexão">> ELSE alerted
  /\ loading' = IF call.request.op = "delete" THEN loading ELSE FALSE
  /\ reply' = IF call.stage = "sent" THEN reply ELSE None
  /\ UNCHANGED <<athletes, seq, now, submitted, live,
                 view, step, formData, listed, reading>>

\* the form used alone, over a network that loses nothing
NextForm ==
  \/ handleInputChange(FormFields)
  \/ handlePhotoUpload
  \/ onloadend
  \/ Voltar
  \/ ProximaEtapa
  \/ handleSubmit
  \/ NovaInscricao
  \/ Serve
  \/ \E call \in Calls : SubmitDone(call)

SpecForm == Init /\ [][NextForm]_vars

\* the form and the admin view, over a network that loses nothing
NextApp ==
  \/ handleInputChange(ConsentField)
  \/ Voltar
  \/ ProximaEtapa
  \/ handleSubmit
  \/ ToggleView
  \/ Refresh
  \/ deleteAthlete
  \/ NovaInscricao
  \/ Serve
  \/ \E call \in Calls : SubmitDone(call)
  \/ \E call \in Calls : FetchDone(call)
  \/ \E call \in Calls : DeleteDone(call)

SpecApp == Init /\ [][NextApp]_vars

\* the App over a network on which any call may fail
NextAppNet ==
  \/ NextApp
  \/ \E call \in Calls : Rejected(call)

SpecAppNet == Init /\ [][NextAppNet]_vars

\* ---- vocabulary of the properties ----

\* this step is the handler answering the request q in flight
Handles(q, op) == q.op = op /\ Answered(q)

\* the text under which a submitted cpf is stored
StoredCpf(data) == TextAffinity(data.cpf)

\* a row of the table holds the cpf of this payload
CpfTaken(tbl, data) == Bindable(data.cpf) /\ \E r \in tbl : r.cpf = StoredCpf(data)

\* decimal text of an id, as it appears in the path of a delete request
IdText(i) == Digits[i]

\* every parameter can be bound, and the two required columns are strings
ValidPayload(data) ==
  /\ \A f \in BoundFields : Bindable(data[f])
  /\ data.nome_completo.t = "string"
  /\ data.cpf.t = "string"

\* a required field that is missing, null or left empty
Absent(x) == x.t \in {"undefined", "null"} \/ x = Str("")

PayloadFields == {"nome_completo", "cpf", "peso", "escola", "termo_aceite"}

\* ---- C1 ----
\* C1: in every reachable state no two rows of the athletes table hold the
\* same cpf.
C1_CpfUnique ==
  \A r1, r2 \in athletes : r1.cpf = r2.cpf => r1 = r2

\* a successful register has just added a second row to the table
C1_Witness ==
  /\ Cardinality(athletes) >= 2
  /\ reply.op = "register"
  /\ reply.success
  /\ \E r \in athletes : r.id = reply.id /\ r.cpf = StoredCpf(reply.data)

\* ---- C2 ----
\* C2: a register whose cpf is that of a row in the table answers
\* success:false and leaves the table exactly as it was.
C2_DuplicateRejected ==
  [][\A q \in InFlight :
       (Handles(q, "register") /\ CpfTaken(athletes, q.data))
         => /\ reply'.success = FALSE
            /\ athletes' = athletes]_vars

\* a register for a cpf that a stored row holds was answered with a failure
C2_Witness ==
  /\ reply.op = "register"
  /\ reply.success = FALSE
  /\ Bindable(reply.data.cpf)
  /\ \E r \in athletes :
       /\ r.cpf = StoredCpf(reply.data)
       /\ r.nome_completo # TextAffinity(reply.data.nome_completo)

\* ---- C3 ----
\* C3: a register with a valid payload and a cpf not in the table succeeds
\* with an id greater than every id returned before, and every list answered
\* while the record has not been deleted contains it.
C3_RegisterThenListed ==
  [][\A q \in InFlight :
       /\ (Handles(q, "register") /\ ValidPayload(q.data)
             /\ ~CpfTaken(athletes, q.data))
            => /\ reply'.success = TRUE
               /\ reply'.status = 200
               /\ \A i \in DOMAIN submitted : reply'.id > i
       /\ Handles(q, "list")
            => \A i \in live :
                 \E k \in DOMAIN reply'.rows :
                   /\ reply'.rows[k].id = i
                   /\ reply'.rows[k].cpf = submitted[i].cpf]_vars

\* a list answer holds the record of the second successful register
C3_Witness ==
  /\ reply.op = "list"
  /\ \E k \in DOMAIN reply.rows :
       /\ reply.rows[k].id \in live
       /\ reply.rows[k].id > 1
       /\ 1 \in DOMAIN submitted

\* C4: every list answer is ordered by created_at descending, and of two
\* records in it the one registered later comes first.
C4_NewestFirst ==
  reply.op = "list" =>
    LET rows == reply.rows
    IN /\ \A i, j \in DOMAIN rows : i < j => rows[i].created_at >= rows[j].created_at
       /\ \A i, j \in DOMAIN rows : rows[j].id > rows[i].id => j < i

\* ---- C5 ----
\* C5: a delete for id leaves no row with that id, and every other row
\* stays in the table with all its fields.
C5_DeleteExactlyOne ==
  [][\A q \in InFlight :
       Handles(q, "delete") =>
         /\ \A r \in athletes' : IdText(r.id) # q.id
         /\ \A r \in athletes : IdText(r.id) # q.id => r \in athletes'
         /\ athletes' \subseteq athletes]_vars

\* a delete removed a registered record while another record stayed
C5_Witness ==
  /\ reply.op = "delete"
  /\ reply.changes = 1
  /\ \E i \in DOMAIN submitted \ live : IdText(i) = reply.id
  /\ \E r \in athletes : r.id \in live /\ IdText(r.id) # reply.id

\* ---- C6 ----
\* C6: a delete for an id that no row has answers {success:true} with the
\* table unchanged, so a second delete of the same id reports success and
\* changes nothing.
C6_DeleteMissingIsNoop ==
  [][\A q \in InFlight :
       (Handles(q, "delete") /\ \A r \in athletes : IdText(r.id) # q.id)
         => /\ reply'.success = TRUE
            /\ reply'.status = 200
            /\ athletes' = athletes]_vars

\* a delete of a registered id that was already deleted removed nothing and
\* reported success, while another record is stored
C6_Witness ==
  /\ athletes # {}
  /\ reply.op = "delete"
  /\ reply.success
  /\ reply.changes = 0
  /\ \E i \in DOMAIN submitted : IdText(i) = reply.id

\* C7: every record of a list answer carries, field by field, the values of
\* the payload whose register created it, the consent flag as the same
\* boolean.
C7_RoundTrip ==
  reply.op = "list" =>
    \A k \in DOMAIN reply.rows :
      LET row == reply.rows[k]
      IN /\ row.id \in DOMAIN submitted
         /\ \A f \in PayloadFields : row[f] = submitted[row.id][f]

\* ---- C8 ----
\* C8: the id a successful register returns was never returned before, also
\* when records, the one with the highest id included, were deleted since.
C8_IdNeverReused ==
  [][\A q \in InFlight :
       (Handles(q, "register") /\ reply'.success)
         => reply'.id \notin DOMAIN submitted]_vars

\* the record with the highest id was deleted and its cpf registered again
C8_Witness ==
  /\ {1, 2} \subseteq DOMAIN submitted
  /\ submitted[1].cpf = submitted[2].cpf
  /\ \E r \in athletes : r.id = 2
  /\ 1 \notin live

\* ---- C9 ----
\* C9: a register whose full name or cpf is absent, the never filled-in
\* draft of the form included, answers with an error and adds no row.
C9_RequiredFieldsEnforced ==
  [][\A q \in InFlight :
       (Handles(q, "register")
          /\ (Absent(q.data.nome_completo) \/ Absent(q.data.cpf)))
         => /\ reply'.success = FALSE
            /\ athletes' = athletes]_vars

\* ---- C10 ----
\* C10: when no delete intervenes, of the register requests that carry one
\* cpf, in flight together or not, at most one succeeds and the table holds
\* at most one row for it; a successful register inserts into the table it
\* checked.
C10_RaceOneWinner ==
  /\ [](\A i, j \in DOMAIN submitted :
          StoredCpf(submitted[i]) = StoredCpf(submitted[j]) => i = j)
  /\ [](\A i \in DOMAIN submitted :
          Cardinality({r \in athletes : r.cpf = StoredCpf(submitted[i])}) = 1)
  /\ [][\A q \in InFlight :
          (Handles(q, "register") /\ reply'.success)
            => /\ ~CpfTaken(athletes, q.data)
               /\ \E r \in athletes' \ athletes : athletes' = athletes \cup {r}]_vars

\* two registers for a free cpf were in flight together; the one answered
\* last lost to the other
C10_Witness ==
  /\ reply.op = "register"
  /\ reply.raced
  /\ reply.success = FALSE
  /\ reply.error = "UNIQUE constraint failed: athletes.cpf"
  /\ Cardinality({r \in athletes : r.cpf = StoredCpf(reply.data)}) = 1

\* ---- C11 ----
\* C11: a record is never modified: a row leaves the table only by the
\* delete for its id and until then stays as it was inserted, whatever other
\* requests are answered, and every list answer shows its id, created_at and
\* fields as stored.
C11_RecordImmutable ==
  [][/\ \A r \in athletes :
          \/ r \in athletes'
          \/ /\ \A r2 \in athletes' : r2.id # r.id
             /\ \E q \in InFlight : Handles(q, "delete") /\ q.id = IdText(r.id)
     /\ \A q \in InFlight :
          Handles(q, "list") =>
            \A k \in DOMAIN reply'.rows :
              \E r \in athletes :
                /\ r.id = reply'.rows[k].id
                /\ r.created_at = reply'.rows[k].created_at
                /\ \A f \in PayloadFields : r[f].v = reply'.rows[k][f].v]_vars

\* record 1 is listed as inserted, seconds later, after record 2 was
\* registered and deleted
C11_Witness ==
  /\ reply.op = "list"
  /\ 2 \in DOMAIN submitted \ live
  /\ \E k \in DOMAIN reply.rows :
       /\ reply.rows[k].id = 1
       /\ reply.rows[k].created_at < now
       /\ reply.rows[k].cpf = submitted[1].cpf

\* ---- C12 ----
\* the first record of the scenario
AnaSilva ==
  [nome_completo |-> Str("Ana"), cpf |-> Str("111"), peso |-> Str("70"),
   escola |-> Str("E1"), termo_aceite |-> Bool(TRUE)]

\* the store after the first register of the scenario and before its delete
AfterFirstRegister ==
  /\ DOMAIN submitted = {1}
  /\ submitted[1].cpf = Str("111")
  /\ live = {1}

\* C12: from an empty store a register with cpf "111" answers success with
\* id 1 and a list then has that one record; a second register with cpf
\* "111" answers success:false and the list still has one record; delete of
\* id 1 answers success and a list is then empty.
C12_Scenario ==
  [][\A q \in InFlight :
       /\ (Handles(q, "register") /\ q.data = AnaSilva /\ athletes = {} /\ live = {}
             /\ submitted = <<>>)
            => reply'.success = TRUE /\ reply'.status = 200 /\ reply'.id = 1
       /\ (Handles(q, "list") /\ AfterFirstRegister)
            => /\ Len(reply'.rows) = 1
               /\ reply'.rows[1].id = 1
               /\ reply'.rows[1].cpf = Str("111")
       /\ (Handles(q, "register") /\ q.data.cpf = Str("111") /\ AfterFirstRegister)
            => reply'.success = FALSE /\ Cardinality(athletes') = 1
       /\ (Handles(q, "delete") /\ q.id = "1" /\ AfterFirstRegister)
            => reply'.success = TRUE /\ athletes' = {}
       /\ (Handles(q, "list") /\ DOMAIN submitted = {1} /\ live = {})
            => Len(reply'.rows) = 0]_vars

\* the list that ends the scenario: record 1 was registered and deleted
C12_Witness ==
  /\ reply.op = "list"
  /\ Len(reply.rows) = 0
  /\ DOMAIN submitted = {1}
  /\ submitted[1] = AnaSilva
  /\ live = {}

\* ---- C13 ----
UniqueMessage == "UNIQUE constraint failed: athletes.cpf"

\* C13: a register ends either with status 200, {success:true, id} and one
\* new row, or with status 500, {success:false, error} and no new row; a
\* duplicate cpf and a missing required field both end the second way and
\* differ in the message only.
C13_RegisterOutcomes ==
  [][\A q \in InFlight :
       Handles(q, "register") =>
         /\ \/ /\ reply'.status = 200
               /\ reply'.success = TRUE
               /\ reply'.keys = {"success", "id"}
               /\ \E r \in athletes' \ athletes :
                    athletes' = athletes \cup {r} /\ r.id = reply'.id
            \/ /\ reply'.status = 500
               /\ reply'.success = FALSE
               /\ reply'.keys = {"success", "error"}
               /\ reply'.error # ""
               /\ athletes' = athletes
         /\ (ValidPayload(q.data) /\ CpfTaken(athletes, q.data))
              => reply'.status = 500 /\ reply'.error = UniqueMessage
         /\ (q.data.nome_completo.t \in {"null", "undefined"}
               \/ q.data.cpf.t \in {"null", "undefined"})
              => reply'.status = 500 /\ reply'.error # UniqueMessage]_vars

\* a register without a name was refused with the store's message while a
\* record is stored
C13_Witness ==
  /\ athletes # {}
  /\ reply.op = "register"
  /\ reply.status = 500
  /\ reply.error = "NOT NULL constraint failed: athletes.nome_completo"

\* ---- C14 ----
\* the step sends a request of the App for the operation
Sends(op) ==
  \E c \in BagToSet(calls') :
    /\ c.request.op = op
    /\ c.stage = "sent"
    /\ CopiesIn(c, calls') > CopiesIn(c, calls)

\* C14: the form sends the register request only at step 5 and with the
\* consent checkbox ticked, so every record created through the form is
\* stored with consent accepted and shows it in every list the admin view
\* displays and exports from.
C14_ConsentBeforeExport ==
  [][/\ Sends("register")
          => /\ view = "form"
             /\ step = 5
             /\ formData.termo_aceite = Bool(TRUE)
             /\ \A c \in BagToSet(calls') :
                  CopiesIn(c, calls') > CopiesIn(c, calls)
                    => c.request.data = formData
     /\ \A r \in athletes' : r.termo_aceite = SqlInt("1")
     /\ \A k \in DOMAIN listed' : listed'[k].termo_aceite = Num("1")]_vars

\* the admin view displays a record the form registered
C14_Witness ==
  /\ view = "admin"
  /\ ~loading
  /\ \E k \in DOMAIN listed :
       /\ listed[k].id \in DOMAIN submitted
       /\ listed[k].termo_aceite = Num("1")

\* ---- C15 ----
\* C15: a network failure of any of the three calls raises the generic
\* alert, and the failed call is not sent again.
C15_FailureAlerts ==
  [][\A call \in Calls :
       Rejected(call) =>
         /\ alerted' = <<"Erro de conexão">>
         /\ \A op \in {"register", "list", "delete"} : ~Sends(op)]_vars

\* ---- C16 ----
\* the register calls of the App the server has not answered
UnansweredRegisters ==
  BagCardinality([c \in {d \in Calls : d.request.op = "register"
                                        /\ d.stage = "sent"} |-> calls[c]])

\* C16: the App never has two register requests unanswered, and while one
\* is unanswered the submit button of the form is disabled.
C16_OneRegisterInFlight ==
  /\ UnansweredRegisters <= 1
  /\ (UnansweredRegisters = 1 /\ view = "form") => SubmitDisabled

\* ---- C17 ----
\* C17: once a delete and every list request have been answered and read,
\* the admin view displays no record the store has deleted.
C17_DeletedNotDisplayed ==
  calls = EmptyBag =>
    \A k \in DOMAIN listed : \E r \in athletes : r.id = listed[k].id

\* ---- C18 ----
\* C18: the success view is entered only on reading a register response
\* with success true, and the step that leaves it shows the form at step 1
\* with the initial draft.
C18_DraftDiscarded ==
  [][/\ (view' = "success" /\ view # "success")
          => \E call \in Calls :
               /\ call.request.op = "register"
               /\ call.stage = "answered"
               /\ call.response.success
               /\ call.response.id \in DOMAIN submitted
               /\ Settled(call)
     /\ (view = "success" /\ view' # "success")
          => view' = "form" /\ step' = 1 /\ formData' = INITIAL_DATA]_vars

\* the form is shown again after a registration succeeded
C18_Witness ==
  /\ view = "form"
  /\ step = 1
  /\ formData = INITIAL_DATA
  /\ submitted # <<>>
  /\ calls = EmptyBag

\* ---- C19 ----
\* C19: editing a field, loading a photo and moving between the steps
\* change the draft and the step only: they send no request and leave the
\* store as it is; the store changes only when the register request sent at
\* step 5 is handled; the step stays within 1..5.
C19_NoPartialDraftPersisted ==
  [][/\ (formData' # formData \/ step' # step \/ reading' # reading)
          => UNCHANGED <<athletes, seq, pending, calls>>
     /\ Sends("register") => view = "form" /\ step = 5
     /\ ~Sends("list") /\ ~Sends("delete")
     /\ athletes' # athletes
          => \E q \in InFlight :
               /\ Handles(q, "register")
               /\ \E c \in Calls : c.request = q /\ c.stage = "sent"
     /\ step' \in 1..5]_vars

\* a draft with a cpf and a photo at step 3, nothing sent and nothing stored
C19_Witness ==
  /\ view = "form"
  /\ step = 3
  /\ formData.cpf = Str("111")
  /\ formData.foto_url = PhotoDataUrl
  /\ calls = EmptyBag
  /\ seq = 0
  /\ athletes = {}

====
